---------------------------- MODULE Spec2Model ----------------------------
(***************************************************************************)
(* ParkSpero-Melbourne: the live-availability refresh                      *)
(* (main/services/live_parking_service.py) and the occupancy predictions   *)
(* (main/services/predictions_service.py) over the Django cache.           *)
(*                                                                         *)
(* Conventions of the model                                                *)
(*  - a latitude is a whole number of metres of arc north of the city      *)
(*    centre and every point lies on the city centre's meridian, where the *)
(*    haversine distance of two points is exactly |lat1 - lat2|;           *)
(*  - a Python dict keyed by 1..n is a function, written as a sequence;    *)
(*  - None is the empty sequence <<>>, an optional value v is <<v>>;       *)
(*  - random.uniform(a, b) is a real factor: int(base * factor) takes      *)
(*    every whole value from floor(base*a) to floor(base*b), so a stage    *)
(*    that multiplies by a random factor is the set of those values;       *)
(*  - a cache entry is [present, value, ttl]; ttl is the timeout it was    *)
(*    stored with.                                                         *)
(***************************************************************************)
EXTENDS Integers, Sequences, FiniteSets, TLC

VARIABLES
    cache,        \* the Django cache: key -> [present, value, ttl]
    lastRefresh,  \* what the last call of fetch_and_cache_parking did
    emittedTotals,\* index -> the total last emitted for it since prev_totals last expired
    lastPredict,  \* what the last call of predict_now did and returned
    probe,        \* a call of one function on its own: [fn, args, result]
    stale,        \* index -> the runs in a row, up to the last, that re-emitted its cached value
    runs,         \* the runs of fetch_and_cache_parking under way in overlapping requests
    op            \* the operation that made the last step

vars == <<cache, lastRefresh, emittedTotals, lastPredict, probe, stale, runs, op>>

----------------------------------------------------------------------------
(* Small helpers *)

Min(a, b) == IF a <= b THEN a ELSE b
Max(a, b) == IF a >= b THEN a ELSE b
Abs(a) == IF a >= 0 THEN a ELSE 0 - a
None == <<>>

\* dict.get(k, default) on a dict written as a function
DictGet(d, k, default) == IF k \in DOMAIN d THEN d[k] ELSE default

\* str.lower() on the status strings of the feed
Lower(s) ==
    CASE s = "Unoccupied" -> "unoccupied"
      [] s = "UNOCCUPIED" -> "unoccupied"
      [] s = "unoccupied" -> "unoccupied"
      [] s = " Unoccupied " -> " unoccupied "
      [] s = "Present" -> "present"
      [] s = "Unknown" -> "unknown"
      [] OTHER -> s

\* (status or "").strip().title() on the status strings of the feed; a status
\* the feed leaves out is ""
StripTitle(s) ==
    CASE s = "Unoccupied" -> "Unoccupied"
      [] s = "UNOCCUPIED" -> "Unoccupied"
      [] s = "unoccupied" -> "Unoccupied"
      [] s = " Unoccupied " -> "Unoccupied"
      [] s = "Present" -> "Present"
      [] s = "Unknown" -> "Unknown"
      [] OTHER -> s

----------------------------------------------------------------------------
(* The cache *)

LIVE == "live_parking_data"
PREV_AVAIL == "prev_availability"
PREV_TOTALS == "prev_totals"
COUNTER == "refresh_counter"
PREDICTIONS == "predictions:v1"
SIGNPLATES == "signplates:v1"
SEGMENTS == "segments:v1"

RefreshKeys == {LIVE, PREV_AVAIL, PREV_TOTALS, COUNTER}
PredictKeys == {PREDICTIONS, SIGNPLATES, SEGMENTS}
Keys == RefreshKeys \cup PredictKeys

LIVE_TTL == 60
PREV_AVAIL_TTL == 3600
PREV_TOTALS_TTL == 86400
COUNTER_TTL == 86400
SIGN_PLATES_TTL == 60 * 30
SEGMENTS_TTL == 60 * 60
PREDICTIONS_TTL == 60

Absent == [present |-> FALSE, value |-> None, ttl |-> 0]
Entry(v, ttl) == [present |-> TRUE, value |-> v, ttl |-> ttl]

\* cache.get(key): the stored value, None once it is absent or expired
CacheGet(c, key) == IF c[key].present THEN c[key].value ELSE None

\* cache.set(key, value, timeout)
CacheSet(c, key, v, ttl) == [c EXCEPT ![key] = Entry(v, ttl)]


----------------------------------------------------------------------------
(* Geo-clustering *)

\* Haversine distance in metres, for two points of the same meridian
calc_distance(lat1, lng1, lat2, lng2) == Abs(lat2 - lat1)

\* CBD_COORDS: every latitude is measured from it
CBD_LAT == 0
CBD_LNG == 0

DEFAULT_RADIUS_M == 100

\* the search that keeps looking after a cluster within the radius is found
FirstWithin_last(clusters, lat, lng, radius_m) ==
    LET near == {j \in 1..Len(clusters) :
                    calc_distance(lat, lng, clusters[j].lat, clusters[j].lng) <= radius_m}
    IN  IF near = {} THEN 0 ELSE CHOOSE j \in near : \A k \in near : j >= k

\* the first cluster, in creation order, whose anchor is within the radius; 0 if none
FirstWithin(clusters, lat, lng, radius_m) ==
    LET near == {j \in 1..Len(clusters) :
                    calc_distance(lat, lng, clusters[j].lat, clusters[j].lng) <= radius_m}
    IN  IF near = {} THEN 0 ELSE CHOOSE j \in near : \A k \in near : j <= k

\* one turn of the loop of group_by_proximity
GroupStep(clusters, rec, radius_m) ==
    IF rec.location = None
    THEN clusters
    ELSE LET lat == rec.location[1].lat
             lng == rec.location[1].lon
             j == FirstWithin(clusters, lat, lng, radius_m)
         IN  IF j # 0
             THEN [clusters EXCEPT ![j].points = Append(@, rec)]
             ELSE Append(clusters, [lat |-> lat, lng |-> lng, points |-> <<rec>>])

RECURSIVE GroupFrom(_, _, _, _)
GroupFrom(records, i, clusters, radius_m) ==
    IF i > Len(records)
    THEN clusters
    ELSE GroupFrom(records, i + 1, GroupStep(clusters, records[i], radius_m), radius_m)

group_by_proximity(records, radius_m) == GroupFrom(records, 1, <<>>, radius_m)

----------------------------------------------------------------------------
(* Live availability estimator *)

status_badge(available, total) ==
    \* ratio = available / total if total else 0; < 0.3 red, < 0.7 yellow, else green
    IF total = 0 \/ available * 10 < 3 * total THEN "red"
    ELSE IF available * 10 < 7 * total THEN "yellow"
    ELSE "green"

\* the totals with the two ranges below 30 bays taken for each other
estimate_total_spaces_swapped(real_total, lat, lng) ==
    LET dist == calc_distance(lat, lng, CBD_LAT, CBD_LNG)
    IN  IF real_total >= 30 THEN 30..40
        ELSE IF dist > 500 THEN 20..30
        ELSE 10..20

\* the values random.randint may give for a synthesized total
estimate_total_spaces(real_total, lat, lng) ==
    LET dist == calc_distance(lat, lng, CBD_LAT, CBD_LNG)
    IN  IF real_total >= 30 THEN 30..40
        ELSE IF dist <= 500 THEN 20..30
        ELSE 10..20

\* the values of int(base * factor), factor uniform in [lo, hi] percent
ScaledBy(base, lo, hi) == ((base * lo) \div 100)..((base * hi) \div 100)

Clamp(v, total) == Min(total, Max(0, v))

adjust_by_time(base_avail, total, now) ==
    LET scaled ==
            IF now.weekday < 5 /\ ((6 <= now.hour /\ now.hour <= 11)
                                     \/ (12 <= now.hour /\ now.hour <= 17))
            THEN ScaledBy(base_avail, 40, 70)
            ELSE IF now.weekday < 5
            THEN ScaledBy(base_avail, 70, 100)
            ELSE ScaledBy(base_avail, 30, 60)
    IN  {Clamp(v, total) : v \in scaled}

adjust_for_cbd_demand(avail, total, lat, lng) ==
    IF calc_distance(lat, lng, CBD_LAT, CBD_LNG) <= 1000
    THEN {Clamp(v, total) : v \in ScaledBy(avail, 60, 85)}
    ELSE {avail}

\* the variation without its clamp
apply_random_variation_unclamped(avail, total) ==
    {avail + change : change \in {-2, -1, 0, 1, 2}}

apply_random_variation(avail, total) ==
    {Clamp(avail + change, total) : change \in {-2, -1, 0, 1, 2}}

\* line 166: the raw unoccupied count plus random.randint(-1, 3), clamped
base_availability(real_available, total) ==
    {Clamp(real_available + offset, total) : offset \in -1..3}

\* the four stages of lines 166-169 in order: every value base_avail may end with
Estimates(real_available, total, now, lat, lng) ==
    LET s0 == base_availability(real_available, total)
        s1 == UNION {adjust_by_time(b, total, now) : b \in s0}
        s2 == UNION {adjust_for_cbd_demand(b, total, lat, lng) : b \in s1}
    IN  UNION {apply_random_variation(b, total) : b \in s2}

\* the thresholds with the larger one a refresh later
Thresholds_late == {6, 1}

\* line 172: threshold = 5 if random.random() < 0.8 else 1
Thresholds == {5, 1}

\* the damping with the threshold itself still suppressing
Damping_inclusive(counter, threshold, has_prev, prev, base_avail) ==
    IF counter <= threshold /\ has_prev
    THEN [available |-> prev, counter |-> counter + 1, reused |-> TRUE]
    ELSE [available |-> base_avail, counter |-> 1, reused |-> FALSE]

\* lines 171-178: the emitted value and the counter stored for the index
Damping(counter, threshold, has_prev, prev, base_avail) ==
    IF counter < threshold /\ has_prev
    THEN [available |-> prev, counter |-> counter + 1, reused |-> TRUE]
    ELSE [available |-> base_avail, counter |-> 1, reused |-> FALSE]

\* the trend that reads a missing previous value as 0
Trend_missing_as_zero(has_prev, prev_avail, available) ==
    IF available > prev_avail THEN "increasing"
    ELSE IF available < prev_avail THEN "decreasing"
    ELSE "stable"

\* lines 194-202
Trend(has_prev, prev_avail, available) ==
    IF ~has_prev THEN "stable"
    ELSE IF available > prev_avail THEN "increasing"
    ELSE IF available < prev_avail THEN "decreasing"
    ELSE "stable"

real_total_of(cluster) == Len(cluster.points)

real_available_of(cluster) ==
    Cardinality({k \in 1..Len(cluster.points) :
                    Lower(cluster.points[k].status_description) = "unoccupied"})

\* The draws of random.randint(a, b) that a run explores: the two ends of the range.
Drawn(range) == {v \in range : \A w \in range : v <= w} \cup
                {v \in range : \A w \in range : v >= w}

\* line 164: prev_totals.get(idx) or estimate_total_spaces(...)
total_spaces_of(idx, cluster, prev_totals) ==
    IF DictGet(prev_totals, idx, 0) # 0
    THEN {prev_totals[idx]}
    ELSE Drawn(estimate_total_spaces(real_total_of(cluster), cluster.lat, cluster.lng))

\* One turn of the loop of fetch_and_cache_parking for cluster idx with the
\* values drawn: the record appended to parking_list and the new counter.
ClusterTurn(idx, cluster, total_spaces, base_avail, threshold, prev_data, refresh_counter) ==
    LET d == Damping(DictGet(refresh_counter, idx, 0), threshold,
                     idx \in DOMAIN prev_data, DictGet(prev_data, idx, 0), base_avail)
    IN  [item |-> [name |-> idx,
                   lat |-> cluster.lat,
                   lng |-> cluster.lng,
                   available |-> d.available,
                   total |-> total_spaces,
                   prediction |-> Trend(idx \in DOMAIN prev_data,
                                        DictGet(prev_data, idx, 0), d.available),
                   badge |-> status_badge(d.available, total_spaces)],
         counter |-> d.counter,
         draw |-> [threshold |-> threshold,
                   reused |-> d.reused,
                   estimate |-> IF d.reused THEN None ELSE <<base_avail>>]]

\* every outcome of one turn of the loop, over the random values
ClusterTurns(idx, cluster, now, prev_data, prev_totals, refresh_counter) ==
    UNION {
      UNION {
        {ClusterTurn(idx, cluster, total, fresh, threshold, prev_data, refresh_counter) :
            threshold \in Thresholds}
        : fresh \in Estimates(real_available_of(cluster), total, now,
                              cluster.lat, cluster.lng)}
      : total \in total_spaces_of(idx, cluster, prev_totals)}

\* every outcome of the loop over clusters 1..n, as sequences of turns
RECURSIVE LoopOutcomes(_, _, _, _, _, _)
LoopOutcomes(n, clusters, now, prev_data, prev_totals, refresh_counter) ==
    IF n = 0
    THEN {<<>>}
    ELSE LET before == LoopOutcomes(n - 1, clusters, now, prev_data, prev_totals,
                                    refresh_counter)
             turns == ClusterTurns(n, clusters[n], now, prev_data, prev_totals,
                                   refresh_counter)
         IN  UNION {{Append(b, t) : t \in turns} : b \in before}

\* line 218: parking_list.sort(key = the index in the name); a stable insertion sort
RECURSIVE SortByName(_)
InsertByName(sorted, x) ==
    LET k == Cardinality({j \in 1..Len(sorted) : sorted[j].name <= x.name})
    IN  SubSeq(sorted, 1, k) \o <<x>> \o SubSeq(sorted, k + 1, Len(sorted))
SortByName(list) ==
    IF list = <<>> THEN <<>>
    ELSE InsertByName(SortByName(SubSeq(list, 1, Len(list) - 1)), list[Len(list)])

\* lines 220-223: the four writes that end a run
StoreRun(c, turns, refresh_counter) ==
    LET parking_list == SortByName([i \in 1..Len(turns) |-> turns[i].item])
        n == Len(parking_list)
        counters == [k \in DOMAIN refresh_counter \cup 1..Len(turns) |->
                        IF k <= Len(turns) THEN turns[k].counter ELSE refresh_counter[k]]
        c1 == CacheSet(c, LIVE, parking_list, LIVE_TTL)
        c2 == CacheSet(c1, PREV_AVAIL, [i \in 1..n |-> parking_list[i].available],
                       PREV_AVAIL_TTL)
        c3 == CacheSet(c2, PREV_TOTALS, [i \in 1..n |-> parking_list[i].total],
                       PREV_TOTALS_TTL)
    IN  CacheSet(c3, COUNTER, counters, COUNTER_TTL)

\* fetch_and_cache_parking when the fetch succeeds with `data` at local time `now`
fetch_and_cache_parking(data, now) ==
    LET clusters == group_by_proximity(data, DEFAULT_RADIUS_M)
        prev_data == CacheGet(cache, PREV_AVAIL)
        prev_totals == CacheGet(cache, PREV_TOTALS)
        refresh_counter == CacheGet(cache, COUNTER)
    IN  \E turns \in LoopOutcomes(Len(clusters), clusters, now, prev_data, prev_totals,
                                  refresh_counter) :
            /\ cache' = StoreRun(cache, turns, refresh_counter)
            /\ lastRefresh' = [outcome |-> "stored",
                               draws |-> [i \in 1..Len(turns) |-> turns[i].draw]]
            /\ emittedTotals' = [k \in DOMAIN emittedTotals \cup 1..Len(turns) |->
                                    IF k <= Len(turns) THEN turns[k].item.total
                                    ELSE emittedTotals[k]]
            /\ stale' = [k \in DOMAIN stale \cup 1..Len(turns) |->
                            IF k > Len(turns) THEN stale[k]
                            ELSE IF turns[k].draw.reused THEN DictGet(stale, k, 0) + 1
                            ELSE 0]
            /\ op' = "fetch_and_cache_parking"
            /\ UNCHANGED <<lastPredict, probe, runs>>

\* a refresh that clears the served list before it fetches
fetch_and_cache_parking_clearing(error) ==
    /\ cache' = [cache EXCEPT ![LIVE] = Absent]
    /\ lastRefresh' = [outcome |-> error, draws |-> <<>>]
    /\ op' = "fetch_and_cache_parking"
    /\ UNCHANGED <<emittedTotals, lastPredict, probe, stale, runs>>

\* fetch_and_cache_parking when requests.get, raise_for_status or resp.json() raises:
\* the except clause logs and returns
fetch_and_cache_parking_failed(error) ==
    /\ cache' = cache
    /\ lastRefresh' = [outcome |-> error, draws |-> <<>>]
    /\ op' = "fetch_and_cache_parking"
    /\ UNCHANGED <<emittedTotals, lastPredict, probe, stale, runs>>

\* get_live_parking_data
get_live_parking_data == CacheGet(cache, LIVE)

\* A key's timeout runs out. The four keys of a run are set together, so a key
\* outlives every key of that run stored with a shorter timeout.
Expire(key) ==
    /\ cache[key].present
    /\ key \in RefreshKeys =>
          \A k \in RefreshKeys : cache[k].present => cache[k].ttl >= cache[key].ttl
    /\ cache' = [cache EXCEPT ![key] = Absent]
    /\ emittedTotals' = IF key = PREV_TOTALS THEN <<>> ELSE emittedTotals
    /\ op' = "expire"
    /\ UNCHANGED <<lastRefresh, lastPredict, probe, stale, runs>>


----------------------------------------------------------------------------
(* Strings of the sign-plate metadata: a string is the sequence of its characters *)

Digits == <<"0", "1", "2", "3", "4", "5", "6", "7", "8", "9">>

\* str.upper() of one character
UpperChar(ch) ==
    LET lower == <<"a", "b", "c", "d", "e", "f", "g", "h", "i", "j", "k", "l", "m",
                   "n", "o", "p", "q", "r", "s", "t", "u", "v", "w", "x", "y", "z">>
        upper == <<"A", "B", "C", "D", "E", "F", "G", "H", "I", "J", "K", "L", "M",
                   "N", "O", "P", "Q", "R", "S", "T", "U", "V", "W", "X", "Y", "Z">>
    IN  IF \E i \in 1..26 : lower[i] = ch
        THEN upper[CHOOSE i \in 1..26 : lower[i] = ch]
        ELSE ch

\* str.upper()
Upper(str) == [i \in 1..Len(str) |-> UpperChar(str[i])]

\* str.isdigit() of one character
IsDigit(ch) == \E i \in 1..10 : Digits[i] = ch
DigitValue(ch) == (CHOOSE i \in 1..10 : Digits[i] = ch) - 1

\* s[:n] and s[n:]
Take(str, n) == SubSeq(str, 1, Min(n, Len(str)))
Drop(str, n) == SubSeq(str, n + 1, Len(str))

StartsWith(str, prefix) == Take(str, Len(prefix)) = prefix
EndsWith(str, suffix) ==
    Len(str) >= Len(suffix) /\ SubSeq(str, Len(str) - Len(suffix) + 1, Len(str)) = suffix

\* sub in str
Contains(str, sub) ==
    \E i \in 0..(Len(str) - Len(sub)) : SubSeq(str, i + 1, i + Len(sub)) = sub

\* str.replace(sub, ""), leftmost occurrences first
RECURSIVE Remove(_, _)
Remove(str, sub) ==
    IF str = <<>> THEN <<>>
    ELSE IF StartsWith(str, sub) THEN Remove(Drop(str, Len(sub)), sub)
    ELSE <<str[1]>> \o Remove(Drop(str, 1), sub)

\* str.strip() of blanks
RECURSIVE Strip(_)
Strip(str) ==
    IF str = <<>> THEN <<>>
    ELSE IF str[1] = " " THEN Strip(Drop(str, 1))
    ELSE IF str[Len(str)] = " " THEN Strip(Take(str, Len(str) - 1))
    ELSE str

\* str.split(sep) for a separator of one character: always at least one part
RECURSIVE Split(_, _)
Split(str, sep) ==
    IF \A i \in 1..Len(str) : str[i] # sep
    THEN <<str>>
    ELSE LET k == CHOOSE i \in 1..Len(str) :
                      str[i] = sep /\ \A j \in 1..(i - 1) : str[j] # sep
         IN  <<Take(str, k - 1)>> \o Split(Drop(str, k), sep)

\* the characters of str that are digits, in order
RECURSIVE OnlyDigits(_)
OnlyDigits(str) ==
    IF str = <<>> THEN <<>>
    ELSE (IF IsDigit(str[1]) THEN <<str[1]>> ELSE <<>>) \o OnlyDigits(Drop(str, 1))

RECURSIVE DecimalValue(_)
DecimalValue(digits) ==
    IF digits = <<>> THEN 0
    ELSE 10 * DecimalValue(Take(digits, Len(digits) - 1)) + DigitValue(digits[Len(digits)])

\* int(str): [raised |-> TRUE] for a ValueError, else the value. Blanks around
\* the number and one sign before it are accepted, as Python does.
IntOfDigits(body, negative) ==
    IF body = <<>> \/ \E i \in 1..Len(body) : ~IsDigit(body[i])
    THEN [raised |-> TRUE, value |-> 0]
    ELSE [raised |-> FALSE,
          value |-> IF negative THEN 0 - DecimalValue(body) ELSE DecimalValue(body)]

IntOfStripped(t) ==
    IF t # <<>> /\ t[1] \in {"-", "+"}
    THEN IntOfDigits(Drop(t, 1), t[1] = "-")
    ELSE IntOfDigits(t, FALSE)

ParseInt(str) == IntOfStripped(Strip(str))

----------------------------------------------------------------------------
(* Restriction rule engine *)

AllDays == <<0, 1, 2, 3, 4, 5, 6>>

\* DAY_TO_IDX.get(token, None): -1 stands for None
DAY_TO_IDX(token) ==
    CASE token = <<"M", "O", "N">> -> 0
      [] token = <<"T", "U", "E">> -> 1
      [] token = <<"W", "E", "D">> -> 2
      [] token = <<"T", "H", "U">> -> 3
      [] token = <<"F", "R", "I">> -> 4
      [] token = <<"S", "A", "T">> -> 5
      [] token = <<"S", "U", "N">> -> 6
      [] OTHER -> -1

\* list(range(a, b))
RangeList(a, b) == [i \in 1..Max(0, b - a) |-> a + i - 1]

\* lines 70-84: the days one comma-separated part adds, or the ValueError of
\* unpacking a split that has not exactly two parts
DayRange(a_idx, b_idx) ==
    IF a_idx = -1 \/ b_idx = -1
    THEN [raised |-> FALSE, days |-> <<>>]
    ELSE IF a_idx <= b_idx
    THEN [raised |-> FALSE, days |-> RangeList(a_idx, b_idx + 1)]
    ELSE [raised |-> FALSE, days |-> RangeList(a_idx, 7) \o RangeList(0, b_idx + 1)]

\* line 71: a, b = p.split("-")
UnpackRange(ab) ==
    IF Len(ab) # 2
    THEN [raised |-> TRUE, days |-> <<>>]
    ELSE DayRange(DAY_TO_IDX(Take(ab[1], 3)), DAY_TO_IDX(Take(ab[2], 3)))

ExpandPart(p) ==
    IF \E i \in 1..Len(p) : p[i] = "-"
    THEN UnpackRange(Split(p, "-"))
    ELSE [raised |-> FALSE,
          days |-> IF DAY_TO_IDX(Take(p, 3)) # -1 THEN <<DAY_TO_IDX(Take(p, 3))>> ELSE <<>>]

\* the days of the parts seen so far followed by those of the next part
JoinDays(first, rest) ==
    IF first.raised \/ rest.raised
    THEN [raised |-> TRUE, days |-> <<>>]
    ELSE [raised |-> FALSE, days |-> first.days \o rest.days]

RECURSIVE ExpandParts(_)
ExpandParts(parts) ==
    IF parts = <<>>
    THEN [raised |-> FALSE, days |-> <<>>]
    ELSE JoinDays(ExpandPart(parts[1]), ExpandParts(Drop(parts, 1)))

\* lines 88-90: one round of the de-duplication loop
AppendNew(out, d) ==
    IF \E i \in 1..Len(out) : out[i] = d THEN out ELSE Append(out, d)

\* lines 85-90: de-duplication that keeps the first occurrences
RECURSIVE Dedup(_)
Dedup(days) ==
    IF days = <<>> THEN <<>>
    ELSE AppendNew(Dedup(Take(days, Len(days) - 1)), days[Len(days)])

\* line 91: out or list(range(7))
OrAllDays(out) == [raised |-> FALSE, days |-> IF out # <<>> THEN out ELSE AllDays]

\* lines 67-91 on the days of the parts
DaysOfParts(e) == IF e.raised THEN e ELSE OrAllDays(Dedup(e.days))

\* lines 64-91 on the normalised spec
DaysOfSpec(u) ==
    IF u \in {<<"D", "A", "I", "L", "Y">>,
              <<"E", "V", "E", "R", "Y", "D", "A", "Y">>,
              <<"M", "O", "N", "-", "S", "U", "N">>}
    THEN [raised |-> FALSE, days |-> AllDays]
    ELSE DaysOfParts(ExpandParts(Split(u, ",")))

\* _expand_days: [raised, days]
expand_days(spec) ==
    IF spec = None
    THEN [raised |-> FALSE, days |-> AllDays]
    ELSE DaysOfSpec(Remove(Remove(Upper(spec), <<" ">>),
                           <<"P", "U", "B", "L", "I", "C", "H", "O", "L", "I", "D", "A", "Y", "S">>))

\* line 51: dtime(hh, mm, ss), which raises outside the clock's ranges
TimeOfFields(hh, mm, ss) ==
    IF \/ hh.raised \/ mm.raised \/ ss.raised
       \/ hh.value \notin 0..23 \/ mm.value \notin 0..59 \/ ss.value \notin 0..59
    THEN [raised |-> TRUE, value |-> 0]
    ELSE [raised |-> FALSE, value |-> hh.value * 3600 + mm.value * 60 + ss.value]

\* line 50: hh, mm, ss = (int(x) for x in s.split(":"))
TimeOfParts(parts) ==
    IF Len(parts) # 3
    THEN [raised |-> TRUE, value |-> 0]
    ELSE TimeOfFields(ParseInt(parts[1]), ParseInt(parts[2]), ParseInt(parts[3]))

\* _parse_time: [raised, value], the value in seconds after midnight
parse_time(str) ==
    IF str = None
    THEN [raised |-> FALSE, value |-> 0]
    ELSE TimeOfParts(Split(str, ":"))

\* int(digits) if digits else None
OptionalInt(digits) == IF digits = <<>> THEN None ELSE <<DecimalValue(digits)>>

\* lines 110-113: int(u[2:]), None when it raises
IntOrNone(parsed) == IF parsed.raised THEN None ELSE <<parsed.value>>

\* lines 105-136 on the stripped upper-case code
MinutesOfUpper(u) ==
    IF Contains(u, <<"P", "E", "R", "M", "I", "T">>) \/ u = <<"P", "P">>
    THEN [minutes |-> None, kind |-> "PERMIT"]
    ELSE IF StartsWith(u, <<"L", "Z">>)
    THEN [minutes |-> IntOrNone(ParseInt(Drop(u, 2))), kind |-> "LOADING"]
    ELSE IF StartsWith(u, <<"F", "P">>)
    THEN IF EndsWith(u, <<"P">>) /\ Len(u) >= 3 /\ IsDigit(u[3])
         THEN [minutes |-> <<DigitValue(u[3]) * 60>>, kind |-> "FREE"]
         ELSE [minutes |-> OptionalInt(OnlyDigits(u)), kind |-> "FREE"]
    ELSE IF /\ StartsWith(u, <<"M", "P">>) /\ EndsWith(u, <<"P">>)
            /\ Len(u) >= 4 /\ IsDigit(u[3])
    THEN [minutes |-> <<DigitValue(u[3]) * 60>>, kind |-> "METERED"]
    ELSE IF EndsWith(u, <<"P">>) /\ IsDigit(u[1])
    THEN [minutes |-> <<DigitValue(u[1]) * 60>>, kind |-> "LIMITED"]
    ELSE [minutes |-> OptionalInt(OnlyDigits(u)), kind |-> "UNKNOWN"]

\* _minutes_for_code: [minutes, kind], minutes None or <<m>>
minutes_for_code(code) ==
    IF code = None
    THEN [minutes |-> None, kind |-> "UNKNOWN"]
    ELSE MinutesOfUpper(Upper(Strip(code)))

\* the local time of a call: t seconds after a Monday 00:00
NowMelb(t) == [weekday |-> (t \div 86400) % 7, time |-> t % 86400, at |-> t]

\* the window that is never read as wrapping past midnight
InWindow_same_day(t0, t1, now_t) ==
    IF t0.raised \/ t1.raised
    THEN [raised |-> TRUE, active |-> FALSE]
    ELSE [raised |-> FALSE, active |-> t0.value <= now_t /\ now_t <= t1.value]

\* _restriction_active: [raised, active]
\* lines 146-152: the time window
InWindow(t0, t1, now_t) ==
    IF t0.raised \/ t1.raised
    THEN [raised |-> TRUE, active |-> FALSE]
    ELSE IF t0.value <= t1.value
    THEN [raised |-> FALSE, active |-> t0.value <= now_t /\ now_t <= t1.value]
    ELSE [raised |-> FALSE, active |-> now_t >= t0.value \/ now_t <= t1.value]

\* lines 143-152 with the days of the rule expanded
ActiveOn(days, start, finish, now_melb) ==
    IF days.raised
    THEN [raised |-> TRUE, active |-> FALSE]
    ELSE IF ~\E i \in 1..Len(days.days) : days.days[i] = now_melb.weekday
    THEN [raised |-> FALSE, active |-> FALSE]
    ELSE InWindow(parse_time(start), parse_time(finish), now_melb.time)

restriction_active(days_spec, start, finish, now_melb) ==
    ActiveOn(expand_days(days_spec), start, finish, now_melb)

\* lines 253-270: the loop of _active_rule_minutes from rule i on, with the best
\* rule so far: [raised, minutes, code]
RECURSIVE RuleLoop(_, _, _, _, _)

\* the loop that keeps the first rule with minutes instead of the shortest
RuleTaken_first(plates, i, now_melb, best_minutes, best_code, mk) ==
    IF mk.kind = "PERMIT"
    THEN [raised |-> FALSE, minutes |-> None, code |-> <<<<"P", "P">>>>]
    ELSE IF mk.minutes = None
    THEN RuleLoop(plates, i + 1, now_melb, best_minutes, best_code)
    ELSE IF best_minutes = None
    THEN RuleLoop(plates, i + 1, now_melb, mk.minutes, <<plates[i].display>>)
    ELSE RuleLoop(plates, i + 1, now_melb, best_minutes, best_code)

\* lines 257-268: rule i is active and its display code reads as mk
RuleTaken(plates, i, now_melb, best_minutes, best_code, mk) ==
    IF mk.kind = "PERMIT"
    THEN [raised |-> FALSE, minutes |-> None, code |-> <<<<"P", "P">>>>]
    ELSE IF mk.minutes = None
    THEN RuleLoop(plates, i + 1, now_melb, best_minutes, best_code)
    ELSE IF best_minutes = None \/ mk.minutes[1] < best_minutes[1]
    THEN RuleLoop(plates, i + 1, now_melb, mk.minutes, <<plates[i].display>>)
    ELSE RuleLoop(plates, i + 1, now_melb, best_minutes, best_code)

\* lines 254-268: rule i, with the outcome act of _restriction_active on it
RuleStep(plates, i, now_melb, best_minutes, best_code, act) ==
    IF act.raised
    THEN [raised |-> TRUE, minutes |-> None, code |-> None]
    ELSE IF ~act.active
    THEN RuleLoop(plates, i + 1, now_melb, best_minutes, best_code)
    ELSE RuleTaken(plates, i, now_melb, best_minutes, best_code,
                   minutes_for_code(plates[i].display))

RuleLoop(plates, i, now_melb, best_minutes, best_code) ==
    IF i > Len(plates)
    THEN [raised |-> FALSE, minutes |-> best_minutes, code |-> best_code]
    ELSE RuleStep(plates, i, now_melb, best_minutes, best_code,
                  restriction_active(plates[i].days, plates[i].start, plates[i].finish,
                                     now_melb))

\* _active_rule_minutes with the sign plates by zone already loaded; an optional
\* result is None or <<value>>
active_rule_minutes(zone, now_melb, by_zone) ==
    IF zone = None
    THEN [raised |-> FALSE, minutes |-> None, code |-> None]
    ELSE RuleLoop(DictGet(by_zone, zone[1], <<>>), 1, now_melb, None, None)

\* the classes with the bounds themselves left to the next class
classify_present_strict(elapsed_sec, allowed_min, rule_code) ==
    IF rule_code = <<<<"P", "P">>>> THEN "PERMIT_PARKING"
    ELSE IF allowed_min = None THEN "OCCUPIED_GT_60M"
    ELSE LET remaining_sec == allowed_min[1] * 60 - elapsed_sec
         IN  IF remaining_sec < 15 * 60 THEN "VACATE_15M"
             ELSE IF remaining_sec < 30 * 60 THEN "VACATE_30M"
             ELSE IF remaining_sec < 60 * 60 THEN "VACATE_60M"
             ELSE "OCCUPIED_GT_60M"

\* _classify_present, the elapsed time in seconds
classify_present(elapsed_sec, allowed_min, rule_code) ==
    IF rule_code = <<<<"P", "P">>>> THEN "PERMIT_PARKING"
    ELSE IF allowed_min = None THEN "OCCUPIED_GT_60M"
    ELSE LET remaining_sec == allowed_min[1] * 60 - elapsed_sec
         IN  IF remaining_sec <= 15 * 60 THEN "VACATE_15M"
             ELSE IF remaining_sec <= 30 * 60 THEN "VACATE_30M"
             ELSE IF remaining_sec <= 60 * 60 THEN "VACATE_60M"
             ELSE "OCCUPIED_GT_60M"

----------------------------------------------------------------------------
(* Occupancy predictions *)

Classes == {"UNOCCUPIED", "VACATE_15M", "VACATE_30M", "VACATE_60M",
            "OCCUPIED_GT_60M", "PERMIT_PARKING"}

\* lines 196-207: the sign plates grouped by zone, in the order of the dataset
RECURSIVE PlatesOfZone(_, _)
PlatesOfZone(plates, z) ==
    IF plates = <<>> THEN <<>>
    ELSE LET p == plates[Len(plates)]
             before == PlatesOfZone(Take(plates, Len(plates) - 1), z)
         IN  IF p.parkingzone = <<z>>
             THEN Append(before, [display |-> p.restriction_display,
                                  days |-> p.restriction_days,
                                  start |-> p.time_restrictions_start,
                                  finish |-> p.time_restrictions_finish])
             ELSE before

PlatesByZone(plates) ==
    [z \in {plates[i].parkingzone[1] :
                i \in {j \in 1..Len(plates) : plates[j].parkingzone # None}} |->
        PlatesOfZone(plates, z)]

\* lines 224-233: the street segment of each zone, the last record of a zone winning
SegmentsByZone(segs) ==
    [z \in {segs[i].parkingzone[1] :
                i \in {j \in 1..Len(segs) : segs[j].parkingzone # None}} |->
        LET last == CHOOSE i \in 1..Len(segs) :
                        /\ segs[i].parkingzone = <<z>>
                        /\ \A j \in (i + 1)..Len(segs) : segs[j].parkingzone # <<z>>
        IN  [onstreet |-> segs[last].onstreet, streetfrom |-> segs[last].streetfrom,
             streetto |-> segs[last].streetto]]

\* A cached metadata loader (_load_sign_plates, _load_segments): the cached value,
\* or the grouped reply of the remote source stored under the key; a failed fetch
\* raises. [raised, cache, value, fetched]
LoadCached(c, key, ttl, reply, grouped) ==
    IF c[key].present
    THEN [raised |-> FALSE, cache |-> c, value |-> c[key].value, fetched |-> FALSE]
    ELSE IF ~reply.ok
    THEN [raised |-> TRUE, cache |-> c, value |-> <<>>, fetched |-> TRUE]
    ELSE [raised |-> FALSE, cache |-> CacheSet(c, key, grouped, ttl),
          value |-> grouped, fetched |-> TRUE]

load_sign_plates(c, reply) ==
    LoadCached(c, SIGNPLATES, SIGN_PLATES_TTL, reply,
               IF reply.ok THEN PlatesByZone(reply.results) ELSE <<>>)

load_segments(c, reply) ==
    LoadCached(c, SEGMENTS, SEGMENTS_TTL, reply,
               IF reply.ok THEN SegmentsByZone(reply.results) ELSE <<>>)

\* lines 360-367: the street label of a zone, None when unknown
street_label(zone, segments) ==
    IF zone = None \/ zone[1] \notin DOMAIN segments THEN None
    ELSE LET seg == segments[zone[1]]
         IN  IF seg.onstreet = None THEN None
             ELSE IF seg.streetfrom # None /\ seg.streetto # None
             THEN <<seg.onstreet, seg.streetfrom, seg.streetto>>
             ELSE <<seg.onstreet>>

\* round(elapsed_min, 2), in hundredths of a minute
RoundedMinutes(elapsed_sec) == (10 * elapsed_sec + 3) \div 6

\* lines 369-380 with the active rule of the zone given: the class of a bay and
\* the fields that follow from it
classify(status_description, elapsed_sec, allowed_min, rule_code) ==
    IF Lower(StripTitle(status_description)) = "unoccupied"
    THEN [classification |-> "UNOCCUPIED", minutes_elapsed |-> 0,
          allowed_minutes |-> None, restriction_code |-> None]
    ELSE [classification |-> classify_present(elapsed_sec, allowed_min, rule_code),
          minutes_elapsed |-> RoundedMinutes(elapsed_sec),
          allowed_minutes |-> allowed_min, restriction_code |-> rule_code]

\* lines 384-394: the item of a row classified as c
ItemOfClass(rec, status, segments, raised, c) ==
    [raised |-> raised,
     item |-> [kerbsideid |-> rec.kerbsideid,
               zone_number |-> rec.zone_number,
               status |-> IF status = "" THEN "Unknown" ELSE status,
               status_timestamp |-> rec.status_timestamp,
               classification |-> c.classification,
               minutes_elapsed |-> c.minutes_elapsed,
               allowed_minutes |-> c.allowed_minutes,
               restriction_code |-> c.restriction_code,
               street |-> street_label(rec.zone_number, segments)]]

\* lines 369-394 with the outcome of the rule lookup of the row; the time elapsed
\* is counted from the status timestamp, or is 0 without one
ItemOfRule(rec, now_melb, segments, rule) ==
    ItemOfClass(rec, StripTitle(rec.status_description), segments, rule.raised,
                classify(rec.status_description,
                         IF rec.status_timestamp = None THEN 0
                         ELSE now_melb.at - rec.status_timestamp[1],
                         rule.minutes, rule.code))

\* lines 354-394: the item of one sensor row, or the exception of its rule lookup
RowItem(rec, now_melb, segments, by_zone) ==
    ItemOfRule(rec, now_melb, segments,
               IF Lower(StripTitle(rec.status_description)) = "unoccupied"
               THEN [raised |-> FALSE, minutes |-> None, code |-> None]
               ELSE active_rule_minutes(rec.zone_number, now_melb, by_zone))

\* the loop that appends the item of a free bay without counting it
RowNext_uncounted(before, row) ==
    IF before.raised \/ row.raised
    THEN [raised |-> TRUE, counts |-> before.counts, items |-> before.items]
    ELSE [raised |-> FALSE,
          counts |-> IF row.item.classification = "UNOCCUPIED" THEN before.counts
                     ELSE [before.counts EXCEPT ![row.item.classification] = @ + 1],
          items |-> Append(before.items, row.item)]

\* lines 382-394: the counts and items with one more row, unless it raised
RowNext(before, row) ==
    IF before.raised \/ row.raised
    THEN [raised |-> TRUE, counts |-> before.counts, items |-> before.items]
    ELSE [raised |-> FALSE,
          counts |-> [before.counts EXCEPT ![row.item.classification] = @ + 1],
          items |-> Append(before.items, row.item)]

\* lines 342-394: counts and items after the first n rows, or the exception
RECURSIVE RowLoop(_, _, _, _, _)
RowLoop(sensors, n, now_melb, segments, by_zone) ==
    IF n = 0
    THEN [raised |-> FALSE, counts |-> [cl \in Classes |-> 0], items |-> <<>>]
    ELSE RowNext(RowLoop(sensors, n - 1, now_melb, segments, by_zone),
                 RowItem(sensors[n], now_melb, segments, by_zone))

\* a row whose rule lookup calls _load_sign_plates
NeedsPlates(rec) ==
    Lower(StripTitle(rec.status_description)) # "unoccupied" /\ rec.zone_number # None

\* the outcome of a call of predict_now
Outcome(outcome, c, returned, fetched, sensors) ==
    [outcome |-> outcome, cache |-> c, returned |-> returned, fetched |-> fetched,
     sensors |-> sensors]

\* lines 396-404: the payload is stored and returned
StorePayload(c, payload, fetched, sensors) ==
    Outcome("computed", CacheSet(c, PREDICTIONS, payload, PREDICTIONS_TTL), payload,
            fetched, sensors)

\* lines 353-404 with the rows looped over
PredictOfLoop(c, t, fetched, sensors, loop) ==
    IF loop.raised
    THEN Outcome("ValueError", c, None, fetched, sensors)
    ELSE StorePayload(c, [generated_at |-> t, ttl |-> PREDICTIONS_TTL,
                          counts |-> loop.counts, items |-> loop.items],
                      fetched, sensors)

\* lines 342-404 with the sign plates loaded, when a row needs them
PredictWithPlates(t, segments, fetched, sensors, pl) ==
    IF pl.raised
    THEN Outcome("sign plates fetch failed", pl.cache, None,
                 fetched \cup {"signplates"}, sensors)
    ELSE PredictOfLoop(pl.cache, t,
                       fetched \cup (IF pl.fetched THEN {"signplates"} ELSE {}), sensors,
                       RowLoop(sensors, Len(sensors), NowMelb(t), segments, pl.value))

\* lines 335-404 with the segments loaded
PredictWithSegments(c, t, seg, sensors_reply, plates_reply) ==
    IF seg.raised
    THEN Outcome("segments fetch failed", c, None, {"segments"}, <<>>)
    ELSE IF ~sensors_reply.ok
    THEN Outcome("sensors fetch failed", seg.cache, None,
                 (IF seg.fetched THEN {"segments"} ELSE {}) \cup {"sensors"}, <<>>)
    ELSE PredictWithPlates(t, seg.value,
             (IF seg.fetched THEN {"segments"} ELSE {}) \cup {"sensors"},
             sensors_reply.results,
             IF \E i \in 1..Len(sensors_reply.results) : NeedsPlates(sensors_reply.results[i])
             THEN load_sign_plates(seg.cache, plates_reply)
             ELSE [raised |-> FALSE, cache |-> seg.cache, value |-> <<>>,
                   fetched |-> FALSE])

\* predict_now without the check of lines 327-329
predict_now_uncached(c, t, segments_reply, sensors_reply, plates_reply) ==
    PredictWithSegments(c, t, load_segments(c, segments_reply), sensors_reply,
                        plates_reply)

\* predict_now at time t with the replies the remote source would give:
\* [outcome, cache, returned, fetched, sensors]
predict_now(c, t, segments_reply, sensors_reply, plates_reply) ==
    IF c[PREDICTIONS].present
    THEN Outcome("cached", c, c[PREDICTIONS].value, {}, <<>>)
    ELSE PredictWithSegments(c, t, load_segments(c, segments_reply), sensors_reply,
                             plates_reply)

----------------
(* The remote feed and the clock: the inputs of a run *)

\* one record of the on-street-parking-bay-sensors dataset
Bay(id, zone, status, ts, lat) ==
    [kerbsideid |-> id, zone_number |-> zone, status_description |-> status,
     status_timestamp |-> ts, location |-> <<[lat |-> lat, lon |-> CBD_LNG]>>]

\* a record the feed gives without a location
Unlocated(id, zone, status, ts) ==
    [kerbsideid |-> id, zone_number |-> zone, status_description |-> status,
     status_timestamp |-> ts, location |-> None]

\* n bays of one kerb side, all free
FreeKerb(n, lat) == [k \in 1..n |-> Bay(k, <<7003>>, "Unoccupied", None, lat)]

\* the bays of the crowded kerb of the feeds below
CrowdedBays == 9

\* no reading at all, or one crowded kerb far from the centre and a record
\* without a location
KerbFeeds == {<<>>, FreeKerb(CrowdedBays, 1500) \o <<Unlocated(90, None, "Present", None)>>}

\* one kerb of one bay 300 m from the centre: one cluster
FeedOneKerb == <<Bay(91, <<7004>>, "Present", None, 300)>>

\* that kerb alone, or with a second kerb 1500 m from the centre: the number of
\* clusters shrinks and grows between runs
ShiftFeeds == {FeedOneKerb, FeedOneKerb \o <<Bay(92, <<7003>>, "UNOCCUPIED", None, 1500)>>}

\* local times of a run: a weekday at 9h, a weekday at 20h, a Saturday at 9h
Nows == {[weekday |-> 0, hour |-> 9], [weekday |-> 2, hour |-> 20],
         [weekday |-> 5, hour |-> 9]}
WeekendNows == {[weekday |-> 5, hour |-> 9]}

FetchErrors == {"network error", "http error", "malformed response"}

\* the strings of the sign-plate dataset used below
Text ==
    [P1 |-> <<"1", "P">>,
     P2 |-> <<"2", "P">>,
     PP |-> <<"P", "P">>,
     XYZ |-> <<"X", "Y", "Z">>,
     FP15 |-> <<"F", "P", "1", "5">>,
     MonFri |-> <<"M", "o", "n", "-", "F", "r", "i">>,
     MonWedFri |-> <<"M", "o", "n", "-", "W", "e", "d", "-", "F", "r", "i">>,
     Sat |-> <<"S", "a", "t">>,
     T0730 |-> <<"0", "7", ":", "3", "0", ":", "0", "0">>,
     T1830 |-> <<"1", "8", ":", "3", "0", ":", "0", "0">>,
     T0730short |-> <<"0", "7", ":", "3", "0">>]

\* one record of the sign-plates dataset
Plate(zone, display, days, start, finish) ==
    [parkingzone |-> zone, restriction_display |-> display, restriction_days |-> days,
     time_restrictions_start |-> start, time_restrictions_finish |-> finish]

\* zone 7003 is 2P and 1P on weekdays, zone 7004 is permit parking every day
PlatesSound == <<Plate(<<7003>>, Text.P2, Text.MonFri, Text.T0730, Text.T1830),
                 Plate(None, Text.P1, None, None, None),
                 Plate(<<7003>>, Text.P1, Text.MonFri, Text.T0730, Text.T1830),
                 Plate(<<7004>>, Text.PP, None, Text.T0730, Text.T1830)>>

\* zone 7005 carries a day spec with two hyphens
PlatesBadDays == PlatesSound \o <<Plate(<<7005>>, Text.P1, Text.MonWedFri, Text.T0730, Text.T1830)>>

\* zone 7005 carries a start time without seconds
PlatesBadTime == PlatesSound \o <<Plate(<<7005>>, Text.P1, Text.MonFri, Text.T0730short, Text.T1830)>>

SegmentsFeed == <<[parkingzone |-> <<7003>>, onstreet |-> <<"Pelham Street">>,
                   streetfrom |-> <<"Cardigan">>, streetto |-> <<"Swanston">>],
                  [parkingzone |-> <<7004>>, onstreet |-> <<"Queen Street">>,
                   streetfrom |-> None, streetto |-> None]>>

\* a Tuesday at 09:00 and a Saturday at 09:00, in seconds after Monday 00:00
Tuesday9 == 86400 + 9 * 3600
Saturday9 == 5 * 86400 + 9 * 3600
PredictTimes == {Tuesday9, Saturday9}

\* a free bay of zone 7003
BayFree == Bay(1, <<7003>>, "UNOCCUPIED", <<Tuesday9 - 600>>, 300)

\* snapshots of the sensor feed, of bays that are free, taken 50, 35 and 20 minutes
\* before Tuesday 09:00, taken in the permit zone, without zone or status, and
\* taken in zone 7005
SensorFeeds ==
    LET taken50 == Bay(2, <<7003>>, "Present", <<Tuesday9 - 3000>>, 300)
        taken35 == Bay(3, <<7003>>, "Present", <<Tuesday9 - 2100>>, 300)
        taken20 == Bay(4, <<7003>>, "Present", <<Tuesday9 - 1200>>, 300)
        permit == Bay(5, <<7004>>, "Present", None, 800)
        no_zone == Unlocated(6, None, "", None)
        zone7005 == Bay(7, <<7005>>, "Present", None, 1500)
    IN  {<<>>,
         <<BayFree>>,
         <<BayFree, taken50, permit, no_zone>>,
         <<taken35, BayFree, zone7005>>,
         <<taken20, taken35>>}

Ok(results) == [ok |-> TRUE, results |-> results]
Failed == [ok |-> FALSE, results |-> <<>>]

\* the replies of the segments dataset
SegmentReplies == {Ok(SegmentsFeed), Failed}

----------------------------------------------------------------------------
(* The live-availability pipeline, one run at a time *)

\* the requests that may run fetch_and_cache_parking at the same time
Requests == {1, 2}

\* a request that is not running fetch_and_cache_parking; `done` counts the runs
\* it has finished
NoRun == [pc |-> "idle", now |-> None, clusters |-> <<>>, prev_data |-> <<>>,
          prev_totals |-> <<>>, read |-> None, draws |-> <<>>, out |-> <<>>, done |-> 0]

\* a process that has started: the cache is empty and nothing has run
Started ==
    /\ cache = [k \in Keys |-> Absent]
    /\ lastRefresh = [outcome |-> "none", draws |-> <<>>]
    /\ emittedTotals = <<>>
    /\ lastPredict = [outcome |-> "none", returned |-> None, fetched |-> {},
                      sensors |-> <<>>]
    /\ stale = <<>>
    /\ runs = [r \in Requests |-> NoRun]
    /\ op = "none"

NoCall == [fn |-> "none", args |-> <<>>, result |-> None]

Init == Started /\ probe = NoCall

Refresh(feeds, nows) == \E data \in feeds, now \in nows : fetch_and_cache_parking(data, now)

RefreshFails == \E error \in FetchErrors : fetch_and_cache_parking_failed(error)

Expires(keys) == \E key \in keys : Expire(key)

\* a feed of at most one kerb, at every time of the week
Next == Refresh(KerbFeeds, Nows) \/ RefreshFails \/ Expires(RefreshKeys)

Spec == Init /\ [][Next]_vars

\* a feed whose number of clusters shrinks and grows between runs
NextShift == Refresh(ShiftFeeds, WeekendNows) \/ RefreshFails \/ Expires(RefreshKeys)

SpecShift == Init /\ [][NextShift]_vars

----------------------------------------------------------------------------
(* The prediction pipeline, one call at a time *)

\* the outcome r of a call of predict_now becomes the next state
Returned(r) ==
    /\ cache' = r.cache
    /\ lastPredict' = [outcome |-> r.outcome, returned |-> r.returned,
                       fetched |-> r.fetched, sensors |-> r.sensors]
    /\ op' = "predict_now"
    /\ UNCHANGED <<lastRefresh, emittedTotals, probe, stale, runs>>

\* a call that finds predictions:v1 in the cache: no reply of the remote source is read
PredictCached ==
    /\ cache[PREDICTIONS].present
    /\ Returned(predict_now(cache, 0, Failed, Failed, Failed))

\* a call that finds no predictions:v1, at one of `times` with the replies drawn
PredictMiss(times, segment_replies, sensor_replies, plate_replies) ==
    /\ ~cache[PREDICTIONS].present
    /\ \E t \in times, segments_reply \in segment_replies,
          sensors_reply \in sensor_replies, plates_reply \in plate_replies :
            Returned(predict_now(cache, t, segments_reply, sensors_reply, plates_reply))

NextPredict ==
    \/ PredictCached
    \/ PredictMiss(PredictTimes, SegmentReplies,
                   {Ok(feed) : feed \in SensorFeeds} \cup {Failed},
                   {Ok(PlatesSound), Ok(PlatesBadDays), Ok(PlatesBadTime), Failed})
    \/ Expires(PredictKeys)

SpecPredict == Init /\ [][NextPredict]_vars

----------------------------------------------------------------------------
(* Both pipelines over one cache *)

\* a refresh of the one-kerb feed and predictions of a free bay, either failing
NextBoth ==
    \/ Refresh({FeedOneKerb}, WeekendNows)
    \/ RefreshFails
    \/ PredictCached
    \/ PredictMiss({Saturday9}, SegmentReplies, {Ok(<<BayFree>>), Failed}, {Failed})
    \/ Expires(Keys)

SpecBoth == Init /\ [][NextBoth]_vars

----------------------------------------------------------------------------
(* One kerb of three bays through both pipelines *)

\* three bays of one kerb `lat` metres north of the centre, two free and one
\* taken ten minutes before Saturday 09:00, in zone 7003
ScenarioRows(lat) ==
    <<Bay(1, <<7003>>, "Unoccupied", <<Saturday9 - 900>>, lat),
      Bay(2, <<7003>>, "Unoccupied", <<Saturday9 - 900>>, lat + 20),
      Bay(3, <<7003>>, "Present", <<Saturday9 - 600>>, lat + 40)>>

\* refreshes of that kerb, near the centre or far from it, each requested when
\* none of the keys of the refresh is cached, and predictions of the kerb on a
\* Saturday, when no rule of zone 7003 is active
NextScenario ==
    \/ /\ \A k \in RefreshKeys : ~cache[k].present
       /\ Refresh({ScenarioRows(300), ScenarioRows(1500)}, Nows)
    \/ PredictCached
    \/ PredictMiss({Saturday9}, {Ok(SegmentsFeed)}, {Ok(ScenarioRows(300))},
                   {Ok(PlatesSound)})
    \/ Expires(Keys)

SpecScenario == Init /\ [][NextScenario]_vars

----------------------------------------------------------------------------
(* Overlapping runs of the live-availability refresh *)

\* the runs that are begun in all
MaxOverlapRuns == 2

\* Lines 148-153 of a run of request r: the snapshot is fetched and grouped and
\* prev_availability is read.
RunBegin(r, data, now) ==
    /\ runs[r].pc = "idle"
    /\ Cardinality({q \in Requests : runs[q].pc # "idle"})
         + runs[1].done + runs[2].done < MaxOverlapRuns
    /\ runs' = [runs EXCEPT ![r] = [NoRun EXCEPT !.pc = "read_totals",
                                                 !.now = <<now>>,
                                                 !.clusters = group_by_proximity(data, DEFAULT_RADIUS_M),
                                                 !.prev_data = CacheGet(cache, PREV_AVAIL),
                                                 !.done = runs[r].done]]
    /\ op' = "begin"
    /\ UNCHANGED <<cache, lastRefresh, emittedTotals, lastPredict, probe, stale>>

\* line 154: prev_totals is read
RunReadTotals(r) ==
    /\ runs[r].pc = "read_totals"
    /\ runs' = [runs EXCEPT ![r].pc = "loop",
                            ![r].prev_totals = CacheGet(cache, PREV_TOTALS)]
    /\ op' = "read"
    /\ UNCHANGED <<cache, lastRefresh, emittedTotals, lastPredict, probe, stale>>

\* lines 155-218: refresh_counter is read, the loop runs over the clusters on the
\* values the run has read and the list is sorted; `out` is what lines 220-223
\* will store under each key
RunLoop(r) ==
    /\ runs[r].pc = "loop"
    /\ \E turns \in LoopOutcomes(Len(runs[r].clusters), runs[r].clusters, runs[r].now[1],
                                  runs[r].prev_data, runs[r].prev_totals,
                                  CacheGet(cache, COUNTER)) :
          runs' = [runs EXCEPT ![r].pc = LIVE,
                              ![r].read = <<CacheGet(cache, COUNTER)>>,
                              ![r].draws = [i \in 1..Len(turns) |-> turns[i].draw],
                              ![r].out = [k \in RefreshKeys |->
                                            StoreRun(cache, turns, CacheGet(cache, COUNTER))[k]]]
    /\ op' = "loop"
    /\ UNCHANGED <<cache, lastRefresh, emittedTotals, lastPredict, probe, stale>>

\* the writes made with cache.add, which keeps a value that is already stored
RunSet_adding(r) ==
    /\ runs[r].pc \in RefreshKeys
    /\ cache' = [cache EXCEPT ![runs[r].pc] =
                    IF @.present THEN @ ELSE runs[r].out[runs[r].pc]]
    /\ runs' = [runs EXCEPT ![r] =
                    CASE runs[r].pc = LIVE -> [@ EXCEPT !.pc = PREV_AVAIL]
                      [] runs[r].pc = PREV_AVAIL -> [@ EXCEPT !.pc = PREV_TOTALS]
                      [] runs[r].pc = PREV_TOTALS -> [@ EXCEPT !.pc = COUNTER]
                      [] OTHER -> [NoRun EXCEPT !.done = runs[r].done + 1]]
    /\ lastRefresh' = IF runs[r].pc = COUNTER
                      THEN [outcome |-> "stored", draws |-> runs[r].draws]
                      ELSE lastRefresh
    /\ op' = "set"
    /\ UNCHANGED <<emittedTotals, stale, lastPredict, probe>>

\* lines 220-223, one cache.set at a time: the key named by pc is set and the run
\* moves to the next key; the set of refresh_counter ends the run
RunSet(r) ==
    /\ runs[r].pc \in RefreshKeys
    /\ cache' = [cache EXCEPT ![runs[r].pc] = runs[r].out[runs[r].pc]]
    /\ runs' = [runs EXCEPT ![r] =
                    CASE runs[r].pc = LIVE -> [@ EXCEPT !.pc = PREV_AVAIL]
                      [] runs[r].pc = PREV_AVAIL -> [@ EXCEPT !.pc = PREV_TOTALS]
                      [] runs[r].pc = PREV_TOTALS -> [@ EXCEPT !.pc = COUNTER]
                      [] OTHER -> [NoRun EXCEPT !.done = runs[r].done + 1]]
    /\ lastRefresh' = IF runs[r].pc = COUNTER
                      THEN [outcome |-> "stored", draws |-> runs[r].draws]
                      ELSE lastRefresh
    /\ emittedTotals' = IF runs[r].pc = LIVE
                        THEN [k \in DOMAIN emittedTotals \cup DOMAIN runs[r].out[LIVE].value |->
                                IF k \in DOMAIN runs[r].out[LIVE].value
                                THEN runs[r].out[LIVE].value[k].total
                                ELSE emittedTotals[k]]
                        ELSE emittedTotals
    /\ stale' = IF runs[r].pc = LIVE
                THEN [k \in DOMAIN stale \cup DOMAIN runs[r].draws |->
                        IF k \notin DOMAIN runs[r].draws THEN stale[k]
                        ELSE IF runs[r].draws[k].reused THEN DictGet(stale, k, 0) + 1
                        ELSE 0]
                ELSE stale
    /\ op' = "set"
    /\ UNCHANGED <<lastPredict, probe>>

\* an earlier refresh that ran alone on the empty cache and drew 11 of 20 spaces
RunFirst(data, now) ==
    /\ \A k \in RefreshKeys : ~cache[k].present
    /\ \A r \in Requests : runs[r] = NoRun
    /\ fetch_and_cache_parking(data, now)
    /\ cache'[PREV_TOTALS].value = <<20>>
    /\ cache'[PREV_AVAIL].value = <<11>>
    /\ lastRefresh'.draws[1].threshold = 5

\* two requests refresh the crowded kerb on a weekday evening, in any
\* interleaving, on the empty cache or after an earlier refresh
NextOverlap ==
    \/ RunFirst(FreeKerb(CrowdedBays, 1500), [weekday |-> 2, hour |-> 20])
    \/ \E r \in Requests :
          \/ RunBegin(r, FreeKerb(CrowdedBays, 1500), [weekday |-> 2, hour |-> 20])
          \/ RunReadTotals(r)
          \/ RunLoop(r)
          \/ RunSet(r)

SpecOverlap == Init /\ [][NextOverlap]_vars

----------------------------------------------------------------------------
(* Functions called on their own *)

\* the calls of fn on each of inputs, not yet made
Calls(fn, inputs) == {[fn |-> fn, args |-> a, result |-> None] : a \in inputs}

\* the call returns r
Returns(r) ==
    /\ probe.result = None
    /\ probe' = [probe EXCEPT !.result = <<r>>]
    /\ op' = probe.fn
    /\ UNCHANGED <<cache, lastRefresh, emittedTotals, lastPredict, stale, runs>>

\* lines 369-380 of predict_now on one row
ClassifyInputs ==
    [status : {"Unoccupied", "UNOCCUPIED", "unoccupied", " Unoccupied ", "Present",
               "Unknown", ""},
     elapsed_sec : {0, 1799, 1800, 2699, 2700, 3599, 3600, 4000},
     allowed_min : {None, <<60>>, <<120>>},
     rule_code : {None, <<Text.PP>>, <<Text.P1>>}]

Classify ==
    /\ probe.fn = "classify"
    /\ Returns(classify(probe.args.status, probe.args.elapsed_sec,
                        probe.args.allowed_min, probe.args.rule_code))

InitClassify == Started /\ probe \in Calls("classify", ClassifyInputs)

SpecClassify == InitClassify /\ [][Classify]_vars

\* _active_rule_minutes on the rules of one zone
Rule(display, days, start, finish) ==
    [display |-> display, days |-> days, start |-> start, finish |-> finish]

\* 2P and permit parking on weekdays, 1P and an unreadable code every day, 15
\* minutes on Saturdays, permit parking at night
Rules ==
    {Rule(Text.P2, Text.MonFri, Text.T0730, Text.T1830),
     Rule(Text.P1, None, Text.T0730, Text.T1830),
     Rule(Text.PP, Text.MonFri, Text.T0730, Text.T1830),
     Rule(Text.XYZ, None, Text.T0730, Text.T1830),
     Rule(Text.FP15, Text.Sat, Text.T0730, Text.T1830),
     Rule(Text.PP, None, Text.T1830, Text.T0730)}

\* the most rules a zone has
MaxRules == 3

\* zone 7003 with every list of rules, in every order, at both times; no zone
\* and a zone without rules
RuleInputs ==
    {[zone |-> <<7003>>, t |-> t, by_zone |-> [z \in {7003} |-> plates]] :
        t \in PredictTimes, plates \in UNION {[1..n -> Rules] : n \in 0..MaxRules}}
    \cup {[zone |-> zone, t |-> Tuesday9,
           by_zone |-> [z \in {7003} |-> <<Rule(Text.P2, Text.MonFri, Text.T0730, Text.T1830)>>]] :
            zone \in {None, <<7009>>}}

ActiveRule ==
    /\ probe.fn = "active_rule_minutes"
    /\ Returns(active_rule_minutes(probe.args.zone, NowMelb(probe.args.t),
                                    probe.args.by_zone))

InitRules == Started /\ probe \in Calls("active_rule_minutes", RuleInputs)

SpecRules == InitRules /\ [][ActiveRule]_vars

\* group_by_proximity on a list of readings
\* the most readings of a list
MaxRecords == 4

\* reading i of a list: at latitude lat, or without a location when lat is -1
Reading(i, lat) ==
    IF lat = -1 THEN Unlocated(i, None, "Present", None)
    ELSE Bay(i, None, "Present", None, lat)

\* every list of readings 0, 100, 160 or 250 m north of the centre or without a
\* location, with the default radius
ClusterInputs ==
    [records : UNION {{[i \in 1..n |-> Reading(i, lats[i])] :
                          lats \in [1..n -> {0, 100, 160, 250, -1}]} : n \in 0..MaxRecords},
     radius_m : {DEFAULT_RADIUS_M}]

Cluster ==
    /\ probe.fn = "group_by_proximity"
    /\ Returns(group_by_proximity(probe.args.records, probe.args.radius_m))

InitCluster == Started /\ probe \in Calls("group_by_proximity", ClusterInputs)

SpecCluster == InitCluster /\ [][Cluster]_vars

\* the most characters of a restriction code
MaxCodeLen == 4

\* _minutes_for_code, _expand_days and _restriction_active called on their own
MinutesForCode ==
    /\ probe.fn = "minutes_for_code"
    /\ Returns(minutes_for_code(probe.args.code))

ExpandDays ==
    /\ probe.fn = "expand_days"
    /\ Returns(expand_days(probe.args.spec))

RestrictionActive ==
    /\ probe.fn = "restriction_active"
    /\ Returns(restriction_active(probe.args.days.spec, probe.args.start.text,
                                  probe.args.finish.text,
                                  [weekday |-> probe.args.weekday, time |-> probe.args.time,
                                   at |-> probe.args.weekday * 86400 + probe.args.time]))

\* The calls: every restriction code of at most MaxCodeLen characters of digits and
\* the letters of the code families, and the codes the documentation names; day
\* specs of one or two comma-separated parts, a part being a token, a range or two
\* hyphens in a row of tokens, each with the weekdays a part stands for (a token
\* that is no weekday stands for none), and the specs for every day; rules of
\* three day specs and five times of day, at ten times of three weekdays.
InitParse ==
    LET codes ==
            UNION {[1..n -> {"1", "2", "0", "P", "F", "M", "L", "Z", "X"}] : n \in 0..MaxCodeLen}
            \cup {Text.FP15, Text.XYZ, <<"L", "Z", "3", "0">>, <<" ", "2", "p", " ">>,
                   <<"P", "e", "r", "m", "i", "t", " ", "2", "P">>, <<"F", "P", "2", "P", " ">>}
        tokens == {[text |-> <<"M", "o", "n">>, idx |-> <<0>>],
                   [text |-> <<"W", "e", "d", "n", "e", "s", "d", "a", "y">>, idx |-> <<2>>],
                   [text |-> <<"F", "r", "i">>, idx |-> <<4>>],
                   [text |-> <<"S", "u", "n">>, idx |-> <<6>>],
                   [text |-> <<"H", "o", "l">>, idx |-> None]}
        singles == {[text |-> a.text, sound |-> TRUE,
                     days |-> IF a.idx = None THEN {} ELSE {a.idx[1]}] : a \in tokens}
        ranges == {[text |-> a.text \o <<"-">> \o b.text, sound |-> TRUE,
                    days |-> IF a.idx = None \/ b.idx = None THEN {}
                             ELSE {(a.idx[1] + k) % 7 :
                                      k \in 0..((b.idx[1] - a.idx[1] + 7) % 7)}] :
                        a \in tokens, b \in tokens}
        doubles == {[text |-> a.text \o <<"-">> \o <<"W", "e", "d">> \o <<"-">> \o b.text,
                     sound |-> FALSE, days |-> {}] : a \in tokens, b \in tokens}
        parts == singles \cup ranges \cup doubles
        dayspecs ==
            {[spec |-> p.text, sound |-> p.sound, days |-> p.days] : p \in parts}
            \cup {[spec |-> p.text \o <<",", " ">> \o q.text, sound |-> p.sound /\ q.sound,
                    days |-> p.days \cup q.days] : p \in parts, q \in singles \cup ranges}
            \cup {[spec |-> str, sound |-> TRUE, days |-> {}] :
                    str \in {None, <<"D", "a", "i", "l", "y">>, <<"m", "o", "n", "-", "s", "u", "n">>,
                             <<"P", "u", "b", "l", "i", "c", " ", "H", "o", "l", "i", "d", "a", "y", "s">>}}
        times == {[text |-> None, secs |-> 0],
                  [text |-> <<"0", "6", ":", "0", "0", ":", "0", "0">>, secs |-> 6 * 3600],
                  [text |-> Text.T0730, secs |-> 7 * 3600 + 30 * 60],
                  [text |-> Text.T1830, secs |-> 18 * 3600 + 30 * 60],
                  [text |-> <<"2", "2", ":", "0", "0", ":", "0", "0">>, secs |-> 22 * 3600]}
        windows ==
            [days : {[spec |-> None, days |-> 0..6], [spec |-> Text.MonFri, days |-> 0..4],
                     [spec |-> Text.Sat, days |-> {5}]},
             start : times, finish : times, weekday : {1, 5, 6},
             time : {0, 6 * 3600, 6 * 3600 + 1, 7 * 3600 + 30 * 60, 12 * 3600,
                     18 * 3600 + 30 * 60, 22 * 3600 - 1, 22 * 3600, 23 * 3600 + 30 * 60,
                     86399}]
    IN  /\ Started
        /\ probe \in Calls("minutes_for_code", {[code |-> c] : c \in codes})
                      \cup Calls("expand_days", dayspecs)
                      \cup Calls("restriction_active", windows)

NextParse == MinutesForCode \/ ExpandDays \/ RestrictionActive

SpecParse == InitParse /\ [][NextParse]_vars

----------------------------------------------------------------------------
(* Properties of the live-availability pipeline *)

\* the step is a run of fetch_and_cache_parking that stored its results
RefreshStored ==
    /\ op' = "fetch_and_cache_parking"
    /\ lastRefresh'.outcome = "stored"

\* every stage of lines 166-169 of a run of `feeds` x `nows` that starts in the
\* present state leaves the estimate within [0, total]
StagesWithin(feeds, nows) ==
    \A data \in feeds, now \in nows :
        LET clusters == group_by_proximity(data, DEFAULT_RADIUS_M)
        IN  \A idx \in 1..Len(clusters) :
              \A total \in total_spaces_of(idx, clusters[idx], CacheGet(cache, PREV_TOTALS)) :
                \A b0 \in base_availability(real_available_of(clusters[idx]), total) :
                  /\ 0 <= b0 /\ b0 <= total
                  /\ \A b1 \in adjust_by_time(b0, total, now) :
                       /\ 0 <= b1 /\ b1 <= total
                       /\ \A b2 \in adjust_for_cbd_demand(b1, total, clusters[idx].lat,
                                                          clusters[idx].lng) :
                            /\ 0 <= b2 /\ b2 <= total
                            /\ \A b3 \in apply_random_variation(b2, total) :
                                 0 <= b3 /\ b3 <= total

\* C1: every record of the live payload has 0 <= available <= total, whether the
\* fresh estimate or the cached value was emitted, the values cached for the next
\* run obey the same bound, and every stage of the estimate of a run that starts
\* now stays within [0, total].
C1_AvailableWithinTotal ==
    /\ \A i \in 1..Len(CacheGet(cache, LIVE)) :
          LET s == CacheGet(cache, LIVE)[i]
          IN  0 <= s.available /\ s.available <= s.total
    /\ \A i \in DOMAIN CacheGet(cache, PREV_AVAIL) \cap DOMAIN CacheGet(cache, PREV_TOTALS) :
          /\ 0 <= CacheGet(cache, PREV_AVAIL)[i]
          /\ CacheGet(cache, PREV_AVAIL)[i] <= CacheGet(cache, PREV_TOTALS)[i]
    /\ StagesWithin(KerbFeeds, Nows)

\* C1 witness: damping re-emitted a cached value that sits at the upper bound
C1_Witness ==
    /\ lastRefresh.outcome = "stored"
    /\ cache[LIVE].present
    /\ Len(cache[LIVE].value) = 1
    /\ Len(lastRefresh.draws) = 1
    /\ lastRefresh.draws[1].reused
    /\ cache[LIVE].value[1].available = cache[LIVE].value[1].total

\* C2: in a run that stored its results, for every index i with counter c read
\* from the cache (0 when absent) and threshold T drawn: c < T and a cached previous
\* value give that value unchanged and counter c + 1; every other case gives the
\* fresh estimate and counter 1.
C2_DampingRule ==
    [][RefreshStored =>
        \A i \in 1..Len(cache'[LIVE].value) :
            LET c == DictGet(CacheGet(cache, COUNTER), i, 0)
                T == lastRefresh'.draws[i].threshold
                prev == CacheGet(cache, PREV_AVAIL)
            IN  IF c < T /\ i \in DOMAIN prev
                THEN /\ cache'[LIVE].value[i].available = prev[i]
                     /\ cache'[COUNTER].value[i] = c + 1
                     /\ lastRefresh'.draws[i].estimate = None
                ELSE /\ <<cache'[LIVE].value[i].available>> = lastRefresh'.draws[i].estimate
                     /\ cache'[COUNTER].value[i] = 1]_vars

\* C2 witness: a run re-emitted the cached value a third time in a row
C2_Witness ==
    /\ lastRefresh.outcome = "stored"
    /\ Len(lastRefresh.draws) = 1
    /\ lastRefresh.draws[1].reused
    /\ lastRefresh.draws[1].threshold = 5
    /\ cache[COUNTER].present
    /\ cache[COUNTER].value[1] = 4

\* C8: a run that stored its results emits, for every index that was emitted
\* before (with prev_totals not expired since), the total it was emitted with.
C8_TotalNeverRecomputed ==
    [][RefreshStored =>
        \A i \in DOMAIN emittedTotals \cap (1..Len(cache'[LIVE].value)) :
            cache'[LIVE].value[i].total = emittedTotals[i]]_vars

\* the cluster and the place in it of every member of `clusters`
Places(clusters) ==
    UNION {{<<j, k>> : k \in 1..Len(clusters[j].points)} : j \in 1..Len(clusters)}

\* the distance of a reading from the anchor of a cluster
FromAnchor(rec, cluster) ==
    calc_distance(rec.location[1].lat, rec.location[1].lon, cluster.lat, cluster.lng)

\* C9: the clusters group_by_proximity returns for a list of readings: every
\* reading with a location is a member of exactly one cluster and every member is
\* such a reading; the anchor of a cluster is the coordinate of its first member;
\* every member is within the radius of its cluster's anchor and farther than the
\* radius from the anchor of every earlier cluster (first fit); members are in input
\* order and clusters in the order of their first members.
C9_GreedyFirstFit ==
    probe.fn = "group_by_proximity" /\ probe.result # None =>
        LET recs == probe.args.records
            radius == probe.args.radius_m
            clusters == probe.result[1]
        IN  /\ \A i \in 1..Len(recs) :
                  Cardinality({pl \in Places(clusters) :
                                  clusters[pl[1]].points[pl[2]] = recs[i]})
                    = IF recs[i].location = None THEN 0 ELSE 1
            /\ \A pl \in Places(clusters) :
                  LET member == clusters[pl[1]].points[pl[2]]
                  IN  /\ \E i \in 1..Len(recs) : recs[i] = member
                      /\ member.location # None
                      /\ FromAnchor(member, clusters[pl[1]]) <= radius
                      /\ \A j \in 1..(pl[1] - 1) : FromAnchor(member, clusters[j]) > radius
                      /\ \A k \in 1..(pl[2] - 1) :
                            clusters[pl[1]].points[k].kerbsideid < member.kerbsideid
            /\ \A j \in 1..Len(clusters) :
                  /\ clusters[j].points # <<>>
                  /\ clusters[j].lat = clusters[j].points[1].location[1].lat
                  /\ clusters[j].lng = clusters[j].points[1].location[1].lon
                  /\ \A j2 \in 1..(j - 1) :
                        clusters[j2].points[1].kerbsideid < clusters[j].points[1].kerbsideid

\* C9 witness: the third reading is within the radius of both anchors and joined
\* the first cluster; the fourth has no location
C9_Witness ==
    /\ probe.fn = "group_by_proximity"
    /\ probe.result # None
    /\ probe.args.records = <<Reading(1, 0), Reading(2, 160), Reading(3, 100), Reading(4, -1)>>
    /\ Len(probe.result[1]) = 2
    /\ probe.result[1][1].points = <<Reading(1, 0), Reading(3, 100)>>

----------------------------------------------------------------------------
(* Properties of the prediction pipeline *)

\* the spellings of the status Unoccupied in the feed
UnoccupiedSpellings == {"Unoccupied", "UNOCCUPIED", "unoccupied", " Unoccupied "}

\* C3: the payload predict_now computes on a cache miss has counts for exactly
\* the six classes, one item per sensor row in the order of the rows, every count
\* is the number of items of its class, and the six counts sum to the number of rows.
C3_CountsMatchRows ==
    lastPredict.outcome = "computed" =>
        LET counts == lastPredict.returned.counts
            items == lastPredict.returned.items
            rows == lastPredict.sensors
        IN  /\ DOMAIN counts = {"UNOCCUPIED", "VACATE_15M", "VACATE_30M", "VACATE_60M",
                                 "OCCUPIED_GT_60M", "PERMIT_PARKING"}
            /\ Len(items) = Len(rows)
            /\ \A i \in 1..Len(rows) :
                  /\ items[i].kerbsideid = rows[i].kerbsideid
                  /\ items[i].classification \in DOMAIN counts
            /\ \A cl \in DOMAIN counts :
                  counts[cl] = Cardinality({i \in 1..Len(items) : items[i].classification = cl})
            /\ counts["UNOCCUPIED"] + counts["VACATE_15M"] + counts["VACATE_30M"]
                 + counts["VACATE_60M"] + counts["OCCUPIED_GT_60M"] + counts["PERMIT_PARKING"]
                 = Len(rows)

\* C3 witness: four rows of four classes, the other two counts present with 0
C3_Witness ==
    /\ lastPredict.outcome = "computed"
    /\ Len(lastPredict.sensors) = 4
    /\ lastPredict.returned.counts["UNOCCUPIED"] = 1
    /\ lastPredict.returned.counts["VACATE_15M"] = 1
    /\ lastPredict.returned.counts["PERMIT_PARKING"] = 1
    /\ lastPredict.returned.counts["OCCUPIED_GT_60M"] = 1
    /\ lastPredict.returned.counts["VACATE_30M"] = 0
    /\ lastPredict.returned.counts["VACATE_60M"] = 0

\* the keys that hold the results of the two pipelines
ResultKeys == {LIVE, PREV_AVAIL, PREV_TOTALS, COUNTER, PREDICTIONS}

\* the step is a run whose fetch of the sensor snapshot failed
SensorFetchFailed ==
    \/ op' = "fetch_and_cache_parking" /\ lastRefresh'.outcome \in FetchErrors
    \/ op' = "predict_now" /\ lastPredict'.outcome = "sensors fetch failed"

\* C4: a refresh or a call of predict_now whose fetch of the sensor snapshot fails
\* leaves live_parking_data, prev_availability, prev_totals, refresh_counter and
\* predictions:v1 as they were, and a reader of the live list gets what it got
\* before the run.
C4_FailedFetchKeepsResults ==
    [][SensorFetchFailed =>
        /\ \A k \in ResultKeys : cache'[k] = cache[k]
        /\ CacheGet(cache', LIVE) = CacheGet(cache, LIVE)]_vars

\* C4 witness: the last refresh and the last call of predict_now both failed to
\* fetch, and the list of an earlier refresh is still served
C4_Witness ==
    /\ op = "predict_now"
    /\ lastPredict.outcome = "sensors fetch failed"
    /\ lastRefresh.outcome \in FetchErrors
    /\ cache[LIVE].present
    /\ cache[PREV_AVAIL].present
    /\ cache[PREV_TOTALS].present
    /\ cache[COUNTER].present
    /\ get_live_parking_data # <<>>

\* C5: a call of predict_now that finds a payload under predictions:v1 returns
\* that payload, fetches nothing and leaves the cache as it is; a call that finds
\* none fetches, and when it computes a payload it has fetched the sensor snapshot,
\* the payload has one item per row of that snapshot, and predictions:v1 holds
\* exactly the returned payload with a timeout of 60 seconds; a call that raises
\* stores nothing under predictions:v1.
C5_FreshOrRecomputed ==
    [][op' = "predict_now" =>
        IF cache[PREDICTIONS].present
        THEN /\ lastPredict'.outcome = "cached"
             /\ lastPredict'.returned = cache[PREDICTIONS].value
             /\ lastPredict'.fetched = {}
             /\ cache' = cache
        ELSE /\ lastPredict'.outcome # "cached"
             /\ lastPredict'.fetched # {}
             /\ lastPredict'.outcome = "computed" =>
                   /\ "sensors" \in lastPredict'.fetched
                   /\ Len(lastPredict'.returned.items) = Len(lastPredict'.sensors)
                   /\ lastPredict'.returned.ttl = 60
                   /\ cache'[PREDICTIONS] =
                        [present |-> TRUE, value |-> lastPredict'.returned, ttl |-> 60]
             /\ lastPredict'.outcome # "computed" => ~cache'[PREDICTIONS].present]_vars

\* C5 witness: a call was served the payload of three rows from the cache
C5_Witness ==
    /\ op = "predict_now"
    /\ lastPredict.outcome = "cached"
    /\ cache[PREDICTIONS].present
    /\ cache[PREDICTIONS].ttl = 60
    /\ lastPredict.returned = cache[PREDICTIONS].value
    /\ Len(lastPredict.returned.items) = 3

\* C6: the class of a row is decided in this order: a status that spells
\* Unoccupied gives UNOCCUPIED with 0 minutes elapsed; else the rule code PP gives
\* PERMIT_PARKING; else no allowed minutes give OCCUPIED_GT_60M; else with
\* remaining = allowed - elapsed (in minutes): remaining <= 15 gives VACATE_15M,
\* 15 < remaining <= 30 VACATE_30M, 30 < remaining <= 60 VACATE_60M and
\* remaining > 60 OCCUPIED_GT_60M.
C6_ClassificationPrecedence ==
    probe.fn = "classify" /\ probe.result # None =>
        LET a == probe.args
            r == probe.result[1]
            remaining_sec == a.allowed_min[1] * 60 - a.elapsed_sec
        IN  IF a.status \in UnoccupiedSpellings
            THEN r.classification = "UNOCCUPIED" /\ r.minutes_elapsed = 0
            ELSE IF a.rule_code = <<Text.PP>>
            THEN r.classification = "PERMIT_PARKING"
            ELSE IF a.allowed_min = None
            THEN r.classification = "OCCUPIED_GT_60M"
            ELSE /\ remaining_sec <= 15 * 60 => r.classification = "VACATE_15M"
                 /\ 15 * 60 < remaining_sec /\ remaining_sec <= 30 * 60
                        => r.classification = "VACATE_30M"
                 /\ 30 * 60 < remaining_sec /\ remaining_sec <= 60 * 60
                        => r.classification = "VACATE_60M"
                 /\ remaining_sec > 60 * 60 => r.classification = "OCCUPIED_GT_60M"

\* C6 witness: a bay taken for longer than its 60 minutes is VACATE_15M
C6_Witness ==
    /\ probe.fn = "classify"
    /\ probe.result # None
    /\ probe.args.status = "Present"
    /\ probe.args.rule_code = <<Text.P1>>
    /\ probe.args.allowed_min = <<60>>
    /\ probe.args.elapsed_sec = 4000
    /\ probe.result[1].classification = "VACATE_15M"

\* the rules of `plates` that are active at now_melb
ActiveRules(plates, now_melb) ==
    {i \in 1..Len(plates) :
        restriction_active(plates[i].days, plates[i].start, plates[i].finish,
                           now_melb).active}

\* C7: _active_rule_minutes returns, whatever the order of the rules of the zone:
\* (None, "PP") when a rule active now is of PERMIT kind; else the minutes and the
\* display code of an active rule with minutes, no active rule having fewer; else
\* (None, None), as for no zone or a zone without rules.
C7_ActiveRuleSelection ==
    probe.fn = "active_rule_minutes" /\ probe.result # None =>
        LET a == probe.args
            r == probe.result[1]
            plates == IF a.zone = None THEN <<>> ELSE DictGet(a.by_zone, a.zone[1], <<>>)
            active == ActiveRules(plates, NowMelb(a.t))
            permits == {i \in active : minutes_for_code(plates[i].display).kind = "PERMIT"}
            timed == {i \in active : minutes_for_code(plates[i].display).minutes # None}
        IN  /\ ~r.raised
            /\ IF permits # {}
               THEN r.minutes = None /\ r.code = <<Text.PP>>
               ELSE IF timed # {}
               THEN \E i \in timed :
                      /\ r.minutes = minutes_for_code(plates[i].display).minutes
                      /\ r.code = <<plates[i].display>>
                      /\ \A j \in timed :
                            minutes_for_code(plates[j].display).minutes[1] >= r.minutes[1]
               ELSE r.minutes = None /\ r.code = None

\* C7 witness: the shortest active rule comes last, after a longer one and one
\* whose code has no minutes
C7_Witness ==
    /\ probe.fn = "active_rule_minutes"
    /\ probe.result # None
    /\ probe.args.t = Tuesday9
    /\ probe.args.zone = <<7003>>
    /\ probe.args.by_zone[7003] = <<Rule(Text.P2, Text.MonFri, Text.T0730, Text.T1830),
                                     Rule(Text.XYZ, None, Text.T0730, Text.T1830),
                                     Rule(Text.P1, None, Text.T0730, Text.T1830)>>
    /\ probe.result[1].minutes = <<60>>
    /\ probe.result[1].code = <<Text.P1>>

\* the outcomes of a call of predict_now that the remote source or the cache decide
SourceOutcomes == {"cached", "segments fetch failed", "sensors fetch failed",
                   "sign plates fetch failed"}

\* C10: a call of predict_now that fetched the sensor rows and the metadata
\* returns a payload with one item per sensor row, whatever the rules of a zone
\* hold.
C10_MalformedNeverAborts ==
    op = "predict_now" /\ lastPredict.outcome \notin SourceOutcomes =>
        /\ lastPredict.outcome = "computed"
        /\ Len(lastPredict.returned.items) = Len(lastPredict.sensors)

----------------------------------------------------------------------------
(* Trend labels *)

\* C12: in a run that stored its results, the trend label of every emitted
\* record compares the emitted available with the value prev_availability held
\* for the same index when the run read it: greater gives "increasing", less
\* "decreasing", equal or no cached value "stable"; so a run on an empty cache
\* and every re-emission of the cached value are labelled "stable".
C12_TrendFromPreceding ==
    [][RefreshStored =>
        \A i \in 1..Len(cache'[LIVE].value) :
            LET prev == CacheGet(cache, PREV_AVAIL)
                rec == cache'[LIVE].value[i]
            IN  /\ i \notin DOMAIN prev => rec.prediction = "stable"
                /\ i \in DOMAIN prev /\ rec.available > prev[i]
                        => rec.prediction = "increasing"
                /\ i \in DOMAIN prev /\ rec.available < prev[i]
                        => rec.prediction = "decreasing"
                /\ i \in DOMAIN prev /\ rec.available = prev[i]
                        => rec.prediction = "stable"
                /\ ~cache[PREV_AVAIL].present => rec.prediction = "stable"
                /\ lastRefresh'.draws[i].reused => rec.prediction = "stable"]_vars

\* C12 witness: the last run emitted a fresh estimate below the cached value
C12_Witness ==
    /\ op = "fetch_and_cache_parking"
    /\ lastRefresh.outcome = "stored"
    /\ Len(cache[LIVE].value) = 1
    /\ ~lastRefresh.draws[1].reused
    /\ cache[LIVE].value[1].prediction = "decreasing"

----------------------------------------------------------------------------
(* One kerb of three bays, two of them free, on an empty cache *)

\* the step is a run that stored its results and found none of its keys cached
ColdRefresh ==
    /\ RefreshStored
    /\ \A k \in RefreshKeys : ~cache[k].present

\* the step is a call of predict_now that computed a payload
Predicted ==
    /\ op' = "predict_now"
    /\ lastPredict'.outcome = "computed"

\* C11 as stated: a refresh of the three bays on an empty cache synthesizes a
\* total in 10..40 and computes an available of at least 2 before damping, and
\* predict_now classifies the taken bay as OCCUPIED_GT_60M.
C11_ScenarioAtLeastTwo ==
    [][/\ ColdRefresh =>
            /\ Len(cache'[LIVE].value) = 1
            /\ cache'[LIVE].value[1].total \in 10..40
            /\ lastRefresh'.draws[1].estimate # None
            /\ lastRefresh'.draws[1].estimate[1] >= 2
       /\ Predicted =>
            lastPredict'.returned.items[3].classification = "OCCUPIED_GT_60M"]_vars

\* C11 amended: a refresh of the three bays on an empty cache emits one record
\* whose total is in 20..30 when the kerb is within 500 m of the centre and in
\* 10..20 otherwise, the available computed before damping is within 0..7 and
\* within [0, total], it is the value emitted, and predict_now classifies the
\* two free bays as UNOCCUPIED and the taken bay as OCCUPIED_GT_60M.
C11_ScenarioWithinTotal ==
    [][/\ ColdRefresh =>
            /\ Len(cache'[LIVE].value) = 1
            /\ LET rec == cache'[LIVE].value[1]
               IN  /\ rec.total \in (IF calc_distance(rec.lat, rec.lng, CBD_LAT, CBD_LNG) <= 500
                                     THEN 20..30 ELSE 10..20)
                   /\ lastRefresh'.draws[1].estimate # None
                   /\ lastRefresh'.draws[1].estimate[1] \in 0..7
                   /\ lastRefresh'.draws[1].estimate[1] <= rec.total
                   /\ rec.available = lastRefresh'.draws[1].estimate[1]
       /\ Predicted =>
            /\ Len(lastPredict'.returned.items) = 3
            /\ lastPredict'.returned.items[1].classification = "UNOCCUPIED"
            /\ lastPredict'.returned.items[2].classification = "UNOCCUPIED"
            /\ lastPredict'.returned.items[3].classification = "OCCUPIED_GT_60M"]_vars

\* C11 witness: the first run of the process computed and emitted 0 for the
\* kerb near the centre, and the taken bay was classified
C11_Witness ==
    /\ lastRefresh.outcome = "stored"
    /\ emittedTotals \in {<<20>>, <<30>>}
    /\ stale = <<0>>
    /\ cache[COUNTER].present
    /\ cache[COUNTER].value = <<1>>
    /\ lastRefresh.draws[1].estimate = <<0>>
    /\ cache[LIVE].present
    /\ cache[LIVE].value[1].available = 0
    /\ lastPredict.outcome = "computed"
    /\ lastPredict.returned.items[3].classification = "OCCUPIED_GT_60M"

----------------------------------------------------------------------------
(* Properties of the rule engine's parsers *)

\* the weekdays a day spec stands for: those of its parts, every day when its
\* parts stand for none
DaysMeant(days) == IF days = {} THEN 0..6 ELSE days

\* C14: _expand_days returns a day set for every day spec and never fails: the
\* weekday indices (Mon = 0 .. Sun = 6) of its tokens and ranges, a range whose
\* start is after its end wrapping through Sunday, without duplicates, and all
\* seven days for a missing, empty or unparseable spec.
C14_DaySetResolution ==
    probe.fn = "expand_days" /\ probe.result # None =>
        LET a == probe.args
            r == probe.result[1]
            resolved == {r.days[i] : i \in 1..Len(r.days)}
        IN  /\ ~r.raised
            /\ resolved # {} /\ resolved \subseteq 0..6
            /\ Len(r.days) = Cardinality(resolved)
            /\ a.sound => resolved = DaysMeant(a.days)

\* C15: _restriction_active returns true exactly when the weekday of nowLocal
\* is one of the rule's days and its time of day t is in the window, both ends
\* included: start <= t <= finish when start <= finish, and t >= start or
\* t <= finish when start > finish. From 22:00:00 to 06:00:00, 23:30 is active
\* and 12:00 is not; on a weekday outside the rule's days no time is active.
C15_ActiveWindow ==
    probe.fn = "restriction_active" /\ probe.result # None =>
        LET a == probe.args
            r == probe.result[1]
            t == a.time
            in_window == IF a.start.secs <= a.finish.secs
                         THEN a.start.secs <= t /\ t <= a.finish.secs
                         ELSE t >= a.start.secs \/ t <= a.finish.secs
        IN  /\ ~r.raised
            /\ r.active <=> (a.weekday \in a.days.days /\ in_window)
            /\ a.weekday \notin a.days.days => ~r.active
            /\ a.weekday \in a.days.days /\ a.start.secs = 22 * 3600
                 /\ a.finish.secs = 6 * 3600
                    => /\ t = 23 * 3600 + 30 * 60 => r.active
                       /\ t = 12 * 3600 => ~r.active

\* C15 witness: a rule of every day from 22:00:00 to 06:00:00 is active at 23:30
C15_Witness ==
    /\ probe.fn = "restriction_active"
    /\ probe.result # None
    /\ probe.args.days.spec = None
    /\ probe.args.start.secs = 22 * 3600
    /\ probe.args.finish.secs = 6 * 3600
    /\ probe.args.time = 23 * 3600 + 30 * 60
    /\ probe.result[1].active

\* the code ends with a digit followed by P
EndsDigitP(u) == Len(u) >= 2 /\ u[Len(u)] = "P" /\ IsDigit(u[Len(u) - 1])

\* 60 times the digit before the final P
HoursBeforeP(u) == <<DigitValue(u[Len(u) - 1]) * 60>>

\* the digits of the code read as one number, None without digits
DigitsOf(u) ==
    LET ds == SelectSeq(u, IsDigit)
    IN  IF ds = <<>> THEN None ELSE <<DecimalValue(ds)>>

\* C13: _minutes_for_code on every code, read without the blanks around it and
\* in upper case, tested in this order: contains PERMIT or equals PP gives
\* (None, PERMIT); starts with LZ gives LOADING with the integer after LZ;
\* starts with FP gives FREE with digit x 60 when it ends with digit+P and else
\* the digits as minutes; starts with MP and ends with digit+P gives METERED with
\* digit x 60; any other code ending with digit+P gives LIMITED with digit x 60;
\* everything else gives UNKNOWN with the digits as minutes, None without digits.
C13_CodePrecedence ==
    probe.fn = "minutes_for_code" /\ probe.result # None =>
        LET u == Upper(Strip(probe.args.code))
            r == probe.result[1]
            after == SubSeq(u, 3, Len(u))
        IN  IF Contains(u, <<"P", "E", "R", "M", "I", "T">>) \/ u = <<"P", "P">>
            THEN r = [minutes |-> None, kind |-> "PERMIT"]
            ELSE IF StartsWith(u, <<"L", "Z">>)
            THEN /\ r.kind = "LOADING"
                 /\ after # <<>> /\ (\A i \in 1..Len(after) : IsDigit(after[i]))
                        => r.minutes = <<DecimalValue(after)>>
            ELSE IF StartsWith(u, <<"F", "P">>)
            THEN /\ r.kind = "FREE"
                 /\ r.minutes = IF EndsDigitP(u) THEN HoursBeforeP(u) ELSE DigitsOf(u)
            ELSE IF StartsWith(u, <<"M", "P">>) /\ EndsDigitP(u)
            THEN r = [minutes |-> HoursBeforeP(u), kind |-> "METERED"]
            ELSE IF EndsDigitP(u)
            THEN r = [minutes |-> HoursBeforeP(u), kind |-> "LIMITED"]
            ELSE r = [minutes |-> DigitsOf(u), kind |-> "UNKNOWN"]

----------------------------------------------------------------------------
(* Staleness of the damping *)

\* C17: with runs one at a time, every stored refresh counter is between 1 and
\* 5 and no index has had its cached value re-emitted by more than 4 runs in a
\* row: of any 5 runs in a row that emit an index, one emits its fresh estimate.
C17_BoundedStaleness ==
    /\ cache[COUNTER].present =>
          \A i \in DOMAIN cache[COUNTER].value :
              1 <= cache[COUNTER].value[i] /\ cache[COUNTER].value[i] <= 5
    /\ \A i \in DOMAIN stale : stale[i] <= 4

\* C17 witness: four runs in a row re-emitted the cached value of index 1
C17_Witness ==
    /\ lastRefresh.outcome = "stored"
    /\ 1 \in DOMAIN stale
    /\ stale[1] = 4
    /\ cache[COUNTER].present
    /\ cache[COUNTER].value[1] = 5
    /\ lastRefresh.draws[1].reused

----------------------------------------------------------------------------
(* Overlapping runs *)

\* the step is request r passing from `from` to `to` in its run
Passes(r, from, to) == runs[r].pc \in from /\ runs'[r] # runs[r] /\ runs'[r].pc \in to

\* C16: runs do not exclude each other and every key is last-write-wins. A run
\* reads each of prev_availability, prev_totals and refresh_counter as the cache
\* holds it at that moment, whatever another run has read or written, and
\* changes no key by reading; the counter it will store for an index is one step
\* from the counter it read (or 1); each of its four writes replaces the value
\* of its key, whichever run stored it, by the run's own value and leaves the
\* other keys as they are.
C16_LastWriteWins ==
    [][\A r \in Requests :
        /\ Passes(r, {"idle"}, {"read_totals"}) =>
              /\ runs'[r].prev_data = CacheGet(cache, PREV_AVAIL)
              /\ cache' = cache
        /\ Passes(r, {"read_totals"}, {"loop"}) =>
              /\ runs'[r].prev_totals = CacheGet(cache, PREV_TOTALS)
              /\ cache' = cache
        /\ Passes(r, {"loop"}, {LIVE}) =>
              /\ runs'[r].read = <<CacheGet(cache, COUNTER)>>
              /\ cache' = cache
              /\ \A i \in 1..Len(runs'[r].draws) :
                    runs'[r].out[COUNTER].value[i] =
                        IF runs'[r].draws[i].reused
                        THEN DictGet(CacheGet(cache, COUNTER), i, 0) + 1
                        ELSE 1
        /\ Passes(r, RefreshKeys, RefreshKeys \cup {"idle"}) =>
              /\ cache'[runs[r].pc] = runs[r].out[runs[r].pc]
              /\ \A k \in Keys \ {runs[r].pc} : cache'[k] = cache[k]]_vars

\* C16 witness: after a refresh that left the counter at 1, two runs have
\* finished, both re-emitted the cached value (two re-emissions in a row), and
\* the counter stands at 2: both had read 1 before either wrote
C16_Witness ==
    /\ \A r \in Requests : runs[r].pc = "idle" /\ runs[r].done = 1
    /\ stale = <<2>>
    /\ cache[COUNTER].value = <<2>>
    /\ cache[LIVE].value[1].available = 11

\* C18: with overlapping runs, every record of the list served and of the list
\* a run is about to store has 0 <= available <= total.
C18_BoundSurvivesOverlap ==
    /\ \A i \in 1..Len(CacheGet(cache, LIVE)) :
          /\ 0 <= cache[LIVE].value[i].available
          /\ cache[LIVE].value[i].available <= cache[LIVE].value[i].total
    /\ \A r \in Requests :
          runs[r].pc \in RefreshKeys =>
              \A i \in 1..Len(runs[r].out[LIVE].value) :
                  /\ 0 <= runs[r].out[LIVE].value[i].available
                  /\ runs[r].out[LIVE].value[i].available <= runs[r].out[LIVE].value[i].total

============================================================================
